---- MODULE Spec2Model ----
(***************************************************************************)
(* Churn analytics (backend/analytics.py, class ChurnAnalyzer) over the    *)
(* events table (backend/models.py, class Event), and the HTTP endpoints   *)
(* with their Redis cache (backend/main.py).                               *)
(*                                                                         *)
(* The analytics are SQL queries; each common table expression of a query  *)
(* is one definition below, with the relational meaning of its SQL text.   *)
(* Text values produced by the month truncation ('YYYY-MM') and the bound  *)
(* parameters ('YYYY-MM-01') are tuples of their numeric fields, compared  *)
(* as the database compares text: field by field, a proper prefix first.   *)
(* Rates are kept in tenths of a percent (one decimal place).              *)
(*                                                                         *)
(* The statement  query = text(...)  of _analyze_segment (line 330) is     *)
(* indented deeper than the statements around it; it is read as the next   *)
(* statement of the method.  _get_month_subtract is called by the segment  *)
(* queries and defined in none of the source files; it is taken to give    *)
(* the previous calendar month as 'YYYY-MM' text.                          *)
(***************************************************************************)
EXTENDS Integers, Sequences, FiniteSets, Bags, TLC

VARIABLES events, result, request, upload, cache, redis_client

vars == <<events, result, request, upload, cache, redis_client>>

(***************************************************************************)
(* Bounds of the model                                                     *)
(***************************************************************************)
MaxEvents == 4
MaxThreshold == 2
MaxSegmentEvents == 3
MaxPatternEvents == 3
MaxSum == 52
MaxOrderEvents == 4
MaxLabelEvents == 10
MaxTimeEvents == 4
MaxActionEvents == 4
MaxReactivationEvents == 4
MaxInactivityEvents == 4
MaxQualityEvents == 3

\* rows of the table in the server runs
MaxServerEvents == 2

\* rows of the table in the runs over the accepted requests
MaxInputEvents == 2

\* rows of the table in the runs of the endpoints
MaxEndpointEvents == 2

Users == {"u1", "u2", "u3"}
Months == {<<2023, 11>>, <<2023, 12>>, <<2024, 1>>, <<2024, 2>>}

(***************************************************************************)
(* Text and calendar helpers                                               *)
(***************************************************************************)
\* text comparison  a < b  of two digit strings given by their fields
RECURSIVE StrLess(_, _)
StrLess(a, b) ==
    IF b = <<>> THEN FALSE
    ELSE IF a = <<>> THEN TRUE
    ELSE IF Head(a) # Head(b) THEN Head(a) < Head(b)
    ELSE StrLess(Tail(a), Tail(b))

StrLeq(a, b) == a = b \/ StrLess(a, b)

\* x BETWEEN lo AND hi on text
StrBetween(x, lo, hi) == StrLeq(lo, x) /\ StrLeq(x, hi)

\* strftime('%Y-%m', created_at)
MonthTrunc(created_at) == <<created_at.year, created_at.month>>

\* f"{month}-01"
MonthFirstDay(month) == month \o <<1>>

_get_previous_month(month) ==
    IF month[2] = 1 THEN <<month[1] - 1, 12>> ELSE <<month[1], month[2] - 1>>

\* the SQL NULL
NULL == "NULL"

\* the stored text of a DateTime column, 'YYYY-MM-DD HH:MM:SS.ffffff'
CreatedAtText(created_at) ==
    <<created_at.year, created_at.month, created_at.day, created_at.hour, 0, 0, 0>>

\* the text of a datetime parameter at midnight, 'YYYY-MM-DD 00:00:00'
DateTimeText(date) == date \o <<0, 0, 0>>

\* MAX over a non-empty set of texts
MaxText(S) == CHOOSE x \in S : \A y \in S : StrLeq(y, x)

\* MIN over a non-empty set of texts
MinText(S) == CHOOSE x \in S : \A y \in S : StrLeq(x, y)

IsLeap(y) == (y % 4 = 0 /\ y % 100 # 0) \/ y % 400 = 0

DaysInMonth(y, m) ==
    IF m = 2 THEN (IF IsLeap(y) THEN 29 ELSE 28)
    ELSE IF m \in {4, 6, 9, 11} THEN 30 ELSE 31

\* date - timedelta(days=n), on <<year, month, day>>
RECURSIVE SubtractDays(_, _)
SubtractDays(date, n) ==
    IF n < date[3] THEN <<date[1], date[2], date[3] - n>>
    ELSE LET p == _get_previous_month(<<date[1], date[2]>>)
         IN  SubtractDays(<<p[1], p[2], DaysInMonth(p[1], p[2])>>, n - date[3])

(***************************************************************************)
(* The events table: a bag of rows (the surrogate id makes equal rows      *)
(* distinct rows of the table).                                            *)
(***************************************************************************)
Event(u, y, m, d, h, act, g, a, c) ==
    [user_hash |-> u,
     created_at |-> [year |-> y, month |-> m, day |-> d, hour |-> h],
     action |-> act, gender |-> g, age_band |-> a, channel |-> c]

\* COUNT(*) over the rows of the table that lie in the set S of row values
RECURSIVE CountRows(_, _)
CountRows(log, S) ==
    IF S = {} THEN 0
    ELSE LET x == CHOOSE x \in S : TRUE
         IN  CopiesIn(x, log) + CountRows(log, S \ {x})

Rows(log) == BagToSet(log)

(***************************************************************************)
(* Rounding to one decimal place of num/den*100, in tenths of a percent    *)
(***************************************************************************)
\* Python round(x, 1): ties go to the even digit
RoundHalfEven10(num, den) ==
    LET q == (num * 1000) \div den
        r == (num * 1000) % den
    IN  IF 2 * r < den THEN q
        ELSE IF 2 * r > den THEN q + 1
        ELSE IF q % 2 = 0 THEN q ELSE q + 1

\* SQL ROUND(x, 1): ties go away from zero
RoundHalfUp10(num, den) ==
    LET q == (num * 1000) \div den
        r == (num * 1000) % den
    IN  IF 2 * r < den THEN q ELSE q + 1

(***************************************************************************)
(* _analyze_inactivity and _analyze_reactivation.  The timestamps are      *)
(* compared as SQLite compares their texts; MySQL compares them as points  *)
(* in time, with the same outcome for every comparison made here except    *)
(* that an event at 00:00:00.000000 of day 31 passes '<= month_end' there. *)
(* _get_date_subtract_days is called by the reactivation query and defined *)
(* in none of the source files; it is taken to give the date text          *)
(* 'YYYY-MM-DD' of the given date minus the given number of days.          *)
(***************************************************************************)
\* _analyze_inactivity with HAVING MIN(created_at) < :cutoff_date
_analyze_inactivity_min(log, month, days_list) ==
    LET month_end == MonthFirstDay(month)
        cutoff_date(days) == DateTimeText(SubtractDays(month_end, days))
        first_activity(u) ==
            MinText({CreatedAtText(e.created_at) : e \in {x \in Rows(log) : x.user_hash = u}})
        inactive_count(days) ==
            Cardinality({u \in {e.user_hash : e \in Rows(log)} :
                            StrLess(first_activity(u), cutoff_date(days))})
    IN  [days \in {days_list[i] : i \in DOMAIN days_list} |-> inactive_count(days)]

\* one query per entry of days_list: the users whose MAX(created_at) is
\* before the cutoff; the result is keyed by the number of days d of its
\* key f"inactive_{d}d"
_analyze_inactivity(log, month, days_list) ==
    LET month_end == MonthFirstDay(month)
        cutoff_date(days) == DateTimeText(SubtractDays(month_end, days))
        last_activity(u) ==
            MaxText({CreatedAtText(e.created_at) : e \in {x \in Rows(log) : x.user_hash = u}})
        inactive_count(days) ==
            Cardinality({u \in {e.user_hash : e \in Rows(log)} :
                            StrLess(last_activity(u), cutoff_date(days))})
    IN  [days \in {days_list[i] : i \in DOMAIN days_list} |-> inactive_count(days)]

\* the date text of  date - days
_get_date_subtract_days(date, days) == SubtractDays(date, days)

\* CTE current_month_active: created_at >= 'YYYY-MM-01' AND created_at <=
\* 'YYYY-MM-31'
current_month_active(log, month_start, month_end) ==
    {e.user_hash : e \in {x \in Rows(log) :
        /\ StrLeq(month_start, CreatedAtText(x.created_at))
        /\ StrLeq(CreatedAtText(x.created_at), month_end)}}

\* CTE user_last_activity_before: LEFT JOIN of the events before month_start
user_last_activity_before(log, cma, month_start) ==
    {LET before == {CreatedAtText(e.created_at) : e \in {x \in Rows(log) :
                        /\ x.user_hash = u
                        /\ StrLess(CreatedAtText(x.created_at), month_start)}}
     IN  [user_hash |-> u,
          last_activity_before |-> IF before = {} THEN NULL ELSE MaxText(before)] :
        u \in cma}

_analyze_reactivation(log, month, gap_days) ==
    LET month_start == month \o <<1>>
        month_end == month \o <<31>>
        date_subtract == _get_date_subtract_days(month_start, gap_days)
        cma == current_month_active(log, month_start, month_end)
        reactivated_count ==
            Cardinality({r \in user_last_activity_before(log, cma, month_start) :
                            /\ r.last_activity_before # NULL
                            /\ StrLess(r.last_activity_before, date_subtract)})
    IN  [reactivated_users |-> reactivated_count, gap_days |-> gap_days]

_calculate_reactivated_users(log, month, gap_days) ==
    _analyze_reactivation(log, month, gap_days).reactivated_users

_calculate_long_term_inactive(log, month, days) ==
    _analyze_inactivity(log, month, <<days>>)[days]

(***************************************************************************)
(* get_monthly_metrics: the churn query and the figures computed from it   *)
(***************************************************************************)
\* monthly_users with HAVING COUNT(*) > :threshold
monthly_users_gt(log, prev_month, curr_month, threshold) ==
    LET inMonths == {e \in Rows(log) : MonthTrunc(e.created_at) \in {prev_month, curr_month}}
        groups == {<<MonthTrunc(e.created_at), e.user_hash>> : e \in inMonths}
        event_count(g) == CountRows(log, {e \in inMonths :
                              MonthTrunc(e.created_at) = g[1] /\ e.user_hash = g[2]})
    IN  {[month |-> g[1], user_hash |-> g[2], event_count |-> event_count(g)] :
            g \in {h \in groups : event_count(h) > threshold}}

\* monthly_users with HAVING COUNT(*) <= :threshold
monthly_users_leq(log, prev_month, curr_month, threshold) ==
    LET inMonths == {e \in Rows(log) : MonthTrunc(e.created_at) \in {prev_month, curr_month}}
        groups == {<<MonthTrunc(e.created_at), e.user_hash>> : e \in inMonths}
        event_count(g) == CountRows(log, {e \in inMonths :
                              MonthTrunc(e.created_at) = g[1] /\ e.user_hash = g[2]})
    IN  {[month |-> g[1], user_hash |-> g[2], event_count |-> event_count(g)] :
            g \in {h \in groups : event_count(h) <= threshold}}

\* CTE monthly_users: one row per (month, user) group with COUNT(*) >= threshold
monthly_users(log, prev_month, curr_month, threshold) ==
    LET inMonths == {e \in Rows(log) : MonthTrunc(e.created_at) \in {prev_month, curr_month}}
        groups == {<<MonthTrunc(e.created_at), e.user_hash>> : e \in inMonths}
        event_count(g) == CountRows(log, {e \in inMonths :
                              MonthTrunc(e.created_at) = g[1] /\ e.user_hash = g[2]})
    IN  {[month |-> g[1], user_hash |-> g[2], event_count |-> event_count(g)] :
            g \in {h \in groups : event_count(h) >= threshold}}

current_active(mu, curr_month) == {r.user_hash : r \in {x \in mu : x.month = curr_month}}

previous_active(mu, prev_month) == {r.user_hash : r \in {x \in mu : x.month = prev_month}}

\* churned with the two sides of the join exchanged
churned_swapped(prev, curr) == {c \in curr : ~ \E p \in prev : p = c}

\* previous_active p LEFT JOIN current_active c ... WHERE c.user_hash IS NULL
churned(prev, curr) == {p \in prev : ~ \E c \in curr : p = c}

\* retained with a LEFT JOIN in place of the INNER JOIN
retained_left_join(prev, curr) == prev

\* previous_active p INNER JOIN current_active c
retained(prev, curr) == {p \in prev : \E c \in curr : p = c}

churn_rate(count, previous_active_users) ==
    IF previous_active_users > 0 THEN RoundHalfEven10(count, previous_active_users) ELSE 0

get_monthly_metrics(log, month, threshold) ==
    LET previous_month == _get_previous_month(month)
        mu   == monthly_users(log, previous_month, month, threshold)
        curr == current_active(mu, month)
        prev == previous_active(mu, previous_month)
        ch   == Cardinality(churned(prev, curr))
        re   == Cardinality(retained(prev, curr))
    IN  [month |-> month,
         active_users |-> Cardinality(curr),
         previous_active_users |-> Cardinality(prev),
         churned_users |-> ch,
         retained_users |-> re,
         churn_rate |-> churn_rate(ch, Cardinality(prev)),
         retention_rate |-> churn_rate(re, Cardinality(prev)),
         reactivated_users |-> _calculate_reactivated_users(log, month, 30),
         long_term_inactive |-> _calculate_long_term_inactive(log, month, 90),
         month_over_month_change |->
             [active_users |-> Cardinality(curr) - Cardinality(prev)]]

(***************************************************************************)
(* get_churn_trends                                                        *)
(***************************************************************************)
\* get_churn_trends with the loop starting at index 0
get_churn_trends_from_first(log, months, threshold) ==
    [months |-> SubSeq(months, 2, Len(months)),
     trends |-> [i \in 1 .. Len(months) |->
                    LET metrics == get_monthly_metrics(log, months[i], threshold)
                    IN  [month |-> months[i],
                         churn_rate |-> metrics.churn_rate,
                         active_users |-> metrics.active_users,
                         churned_users |-> metrics.churned_users]]]

\* for i in range(1, len(months)): one row per month after the first
get_churn_trends(log, months, threshold) ==
    [months |-> SubSeq(months, 2, Len(months)),
     trends |-> [i \in 1 .. (IF Len(months) = 0 THEN 0 ELSE Len(months) - 1) |->
                    LET metrics == get_monthly_metrics(log, months[i + 1], threshold)
                    IN  [month |-> months[i + 1],
                         churn_rate |-> metrics.churn_rate,
                         active_users |-> metrics.active_users,
                         churned_users |-> metrics.churned_users]]]

(***************************************************************************)
(* _analyze_segment: gender, age_band or channel                           *)
(***************************************************************************)
min_sample_size == 50

\* sum of the values of a function with finite domain
RECURSIVE SumFn(_)
SumFn(fn) ==
    IF DOMAIN fn = {} THEN 0
    ELSE LET x == CHOOSE x \in DOMAIN fn : TRUE
         IN  fn[x] + SumFn([y \in DOMAIN fn \ {x} |-> fn[y]])

\* the month n calendar months before a 'YYYY-MM' text, as 'YYYY-MM'
_get_month_subtract(month, n) ==
    LET idx == month[1] * 12 + (month[2] - 1) - n
    IN  <<idx \div 12, (idx % 12) + 1>>

\* segment_monthly without the filter  != 'Unknown'
segment_monthly_with_unknown(log, segment_type, start_month, end_month) ==
    {[segment_value |-> e[segment_type],
      month |-> MonthTrunc(e.created_at),
      user_hash |-> e.user_hash] :
        e \in {x \in Rows(log) :
                 /\ StrBetween(MonthTrunc(x.created_at),
                               MonthFirstDay(start_month), MonthFirstDay(end_month))
                 /\ x[segment_type] # NULL}}

\* CTE segment_monthly: distinct (segment_value, month, user_hash) of the
\* events whose 'YYYY-MM' text lies BETWEEN 'start-01' AND 'end-01'
segment_monthly(log, segment_type, start_month, end_month) ==
    {[segment_value |-> e[segment_type],
      month |-> MonthTrunc(e.created_at),
      user_hash |-> e.user_hash] :
        e \in {x \in Rows(log) :
                 /\ StrBetween(MonthTrunc(x.created_at),
                               MonthFirstDay(start_month), MonthFirstDay(end_month))
                 /\ x[segment_type] # NULL
                 /\ x[segment_type] # "Unknown"}}

\* CTE segment_months
segment_months(sm) == {[segment_value |-> r.segment_value, month |-> r.month] : r \in sm}

\* CTE month_pairs: WHERE sm.month > 'start-01'
month_pairs(sms, start_month) ==
    {[segment_value |-> r.segment_value,
      curr_month |-> r.month,
      prev_month |-> _get_month_subtract(r.month, 1)] :
        r \in {x \in sms : StrLess(MonthFirstDay(start_month), x.month)}}

\* CTE prev_active: COUNT(DISTINCT m.user_hash) of the pair's previous month
prev_active(sm, mp) ==
    Cardinality({m.user_hash : m \in {x \in sm : /\ x.segment_value = mp.segment_value
                                                  /\ x.month = mp.prev_month}})

\* CTE curr_active: COUNT(DISTINCT m.user_hash) of the pair's current month
curr_active(sm, mp) ==
    Cardinality({m.user_hash : m \in {x \in sm : /\ x.segment_value = mp.segment_value
                                                  /\ x.month = mp.curr_month}})

\* CTE churned: previous-month rows without a current-month row of the same
\* segment value and user
segment_churned(sm, mp) ==
    Cardinality({pm.user_hash : pm \in {x \in sm :
        /\ x.segment_value = mp.segment_value
        /\ x.month = mp.prev_month
        /\ ~ \E cm \in sm : /\ cm.segment_value = mp.segment_value
                            /\ cm.month = mp.curr_month
                            /\ cm.user_hash = x.user_hash}})

\* CTE aggregated: per segment value, the sums over its month pairs
aggregated(sm, pairs) ==
    {LET mine == {mp \in pairs : mp.segment_value = v}
     IN  [segment_value |-> v,
          previous_active_sum |-> SumFn([mp \in mine |-> prev_active(sm, mp)]),
          current_active_sum |-> SumFn([mp \in mine |-> curr_active(sm, mp)]),
          churned_sum |-> SumFn([mp \in mine |-> segment_churned(sm, mp)])] :
        v \in {mp.segment_value : mp \in pairs}}

\* the final SELECT with previous_active_sum <= :min_sample
segment_select_leq(agg) ==
    {[segment_value |-> a.segment_value,
      current_active |-> a.current_active_sum,
      previous_active |-> a.previous_active_sum,
      churned_users |-> a.churned_sum,
      churn_rate |-> IF a.previous_active_sum > 0
                     THEN RoundHalfUp10(a.churned_sum, a.previous_active_sum) ELSE 0,
      is_uncertain |-> IF a.previous_active_sum <= min_sample_size THEN 1 ELSE 0] :
        a \in {x \in agg : x.previous_active_sum > 0}}

\* final SELECT of _analyze_segment (is_uncertain is 1 or 0)
segment_select(agg) ==
    {[segment_value |-> a.segment_value,
      current_active |-> a.current_active_sum,
      previous_active |-> a.previous_active_sum,
      churned_users |-> a.churned_sum,
      churn_rate |-> IF a.previous_active_sum > 0
                     THEN RoundHalfUp10(a.churned_sum, a.previous_active_sum) ELSE 0,
      is_uncertain |-> IF a.previous_active_sum < min_sample_size THEN 1 ELSE 0] :
        a \in {x \in agg : x.previous_active_sum > 0}}

\* ORDER BY churn_rate ASC
order_by_churn_rate_asc(rows) ==
    {s \in [1 .. Cardinality(rows) -> rows] :
        /\ \A i, j \in DOMAIN s : i # j => s[i] # s[j]
        /\ \A i \in DOMAIN s : i + 1 \in DOMAIN s => s[i].churn_rate <= s[i + 1].churn_rate}

\* ORDER BY churn_rate DESC: every listing of the rows by non-increasing
\* churn_rate (the order of rows with equal churn_rate is the database's)
order_by_churn_rate(rows) ==
    {s \in [1 .. Cardinality(rows) -> rows] :
        /\ \A i, j \in DOMAIN s : i # j => s[i] # s[j]
        /\ \A i \in DOMAIN s : i + 1 \in DOMAIN s => s[i].churn_rate >= s[i + 1].churn_rate}

_analyze_segment(log, segment_type, start_month, end_month) ==
    LET sm == segment_monthly(log, segment_type, start_month, end_month)
        pairs == month_pairs(segment_months(sm), start_month)
    IN  order_by_churn_rate(segment_select(aggregated(sm, pairs)))

(***************************************************************************)
(* _analyze_combined_segments: gender x age_band x channel.  The label     *)
(* gender || '/' || age_band || '/' || channel  is kept as the triple of   *)
(* its components: the attribute values hold no '/', so that the text and  *)
(* the triple determine each other.                                        *)
(***************************************************************************)
\* CTE segment_monthly of the combined query
combined_segment_monthly(log, start_month, end_month) ==
    {[segment_value |-> <<e.gender, e.age_band, e.channel>>,
      month |-> MonthTrunc(e.created_at),
      user_hash |-> e.user_hash] :
        e \in {x \in Rows(log) :
                 /\ StrBetween(MonthTrunc(x.created_at),
                               MonthFirstDay(start_month), MonthFirstDay(end_month))
                 /\ x.gender # NULL
                 /\ x.age_band # NULL
                 /\ x.channel # NULL
                 /\ x.gender # "Unknown"
                 /\ x.age_band # "Unknown"
                 /\ x.channel # "Unknown"}}

\* final SELECT of the combined query (is_uncertain is true or false)
combined_select(agg) ==
    {[segment_value |-> a.segment_value,
      current_active |-> a.current_active_sum,
      previous_active |-> a.previous_active_sum,
      churned_users |-> a.churned_sum,
      churn_rate |-> IF a.previous_active_sum > 0
                     THEN RoundHalfUp10(a.churned_sum, a.previous_active_sum) ELSE 0,
      is_uncertain |-> a.previous_active_sum < min_sample_size] :
        a \in {x \in agg : x.previous_active_sum > 0}}

_analyze_combined_segments(log, start_month, end_month) ==
    LET sm == combined_segment_monthly(log, start_month, end_month)
        pairs == month_pairs(segment_months(sm), start_month)
    IN  order_by_churn_rate(combined_select(aggregated(sm, pairs)))

(***************************************************************************)
(* _analyze_weekday_pattern                                                *)
(* Labels: "weekday-heavy" is the text '평일주력', "weekend-heavy" is      *)
(* '주말주력', "weekday-only" is '평일만', "weekend-only" is '주말만' and   *)
(* "mixed" is '혼합'.  The cast  x::float  is read as CAST(x AS FLOAT).    *)
(***************************************************************************)
\* the database of DATABASE_URL: SQLite by default, MySQL in production
Dialects == {"sqlite", "mysql"}

\* SQLite's CAST(strftime('%w', created_at) AS INTEGER): 0 is Sunday .. 6 is
\* Saturday
strftime_w(created_at) ==
    LET t == <<0, 3, 2, 5, 0, 3, 5, 1, 4, 6, 2, 4>>
        y == IF created_at.month < 3 THEN created_at.year - 1 ELSE created_at.year
    IN  (y + (y \div 4) - (y \div 100) + (y \div 400)
           + t[created_at.month] + created_at.day) % 7

\* MySQL's WEEKDAY(created_at): 0 is Monday .. 6 is Sunday
WEEKDAY(created_at) == (strftime_w(created_at) + 6) % 7

\* the day-of-week expression of the analyzer's dialect
_get_extract_dow(dialect, created_at) ==
    IF dialect = "sqlite" THEN strftime_w(created_at)
    ELSE IF dialect = "mysql" THEN WEEKDAY(created_at)
    ELSE strftime_w(created_at)

\* CTE user_weekday_stats: per (user, month) of the window, the number of
\* Monday-Friday events, of Saturday/Sunday events and of all events
user_weekday_stats(log, dialect, start_month, end_month) ==
    LET inWindow == {e \in Rows(log) :
                        StrBetween(MonthTrunc(e.created_at),
                                   MonthFirstDay(start_month), MonthFirstDay(end_month))}
        groups == {<<e.user_hash, MonthTrunc(e.created_at)>> : e \in inWindow}
        of(g) == {e \in inWindow : e.user_hash = g[1] /\ MonthTrunc(e.created_at) = g[2]}
    IN  {[user_hash |-> g[1],
          month |-> g[2],
          weekday_count |-> CountRows(log, {e \in of(g) : _get_extract_dow(dialect, e.created_at) \in 1 .. 5}),
          weekend_count |-> CountRows(log, {e \in of(g) : _get_extract_dow(dialect, e.created_at) \in {0, 6}}),
          total_count |-> CountRows(log, of(g))] : g \in groups}

\* the CASE of CTE user_segments; a ratio over NULLIF(total_count, 0) is
\* NULL for total_count = 0 and then no comparison holds
weekday_segment_value(st) ==
    IF st.total_count # 0 /\ 10 * st.weekday_count >= 7 * st.total_count THEN "weekday-heavy"
    ELSE IF st.total_count # 0 /\ 2 * st.weekend_count >= st.total_count THEN "weekend-heavy"
    ELSE IF st.weekday_count = st.total_count THEN "weekday-only"
    ELSE IF st.weekend_count = st.total_count THEN "weekend-only"
    ELSE "mixed"

\* CTE user_segments
user_segments(stats) ==
    {[user_hash |-> st.user_hash, month |-> st.month,
      segment_value |-> weekday_segment_value(st)] : st \in stats}

\* CTE month_pairs of the pattern analyses: WHERE us.month > 'start-01'
pattern_month_pairs(us, start_month) ==
    {[segment_value |-> r.segment_value,
      curr_month |-> r.month,
      prev_month |-> _get_month_subtract(r.month, 1)] :
        r \in {x \in us : StrLess(MonthFirstDay(start_month), x.month)}}

\* CTE aggregated of the pattern analyses: GROUP BY segment_value alone, the
\* three COUNT(DISTINCT ...) run over the joined rows of all its month pairs
pattern_aggregated(us, pairs) ==
    {LET mine == {mp \in pairs : mp.segment_value = v}
         ps(mp) == {x \in us : x.segment_value = v /\ x.month = mp.prev_month}
         cs(mp) == {x \in us : x.segment_value = v /\ x.month = mp.curr_month}
         gone(mp) == {x \in ps(mp) : ~ \E cs2 \in us : /\ cs2.user_hash = x.user_hash
                                                        /\ cs2.month = mp.curr_month}
     IN  [segment_value |-> v,
          previous_active |-> Cardinality(UNION {{x.user_hash : x \in ps(mp)} : mp \in mine}),
          current_active |-> Cardinality(UNION {{x.user_hash : x \in cs(mp)} : mp \in mine}),
          churned_users |-> Cardinality(UNION {{x.user_hash : x \in gone(mp)} : mp \in mine})] :
        v \in {mp.segment_value : mp \in pairs}}

\* final SELECT of the pattern analyses (is_uncertain is true or false)
pattern_select(agg) ==
    {[segment_value |-> a.segment_value,
      current_active |-> a.current_active,
      previous_active |-> a.previous_active,
      churned_users |-> a.churned_users,
      churn_rate |-> IF a.previous_active > 0
                     THEN RoundHalfUp10(a.churned_users, a.previous_active) ELSE 0,
      is_uncertain |-> a.previous_active < min_sample_size] :
        a \in {x \in agg : x.previous_active > 0}}

_analyze_weekday_pattern(log, dialect, start_month, end_month) ==
    LET us == user_segments(user_weekday_stats(log, dialect, start_month, end_month))
        pairs == pattern_month_pairs(us, start_month)
    IN  order_by_churn_rate(pattern_select(pattern_aggregated(us, pairs)))

(***************************************************************************)
(* _analyze_time_pattern, up to its user_segments CTE                      *)
(* Labels: "morning" is the text '오전', "afternoon" is '오후', "evening"  *)
(* is '저녁', "night" is '새벽' and "mixed" is '혼합'.                      *)
(***************************************************************************)
\* CAST(strftime('%H', created_at) AS INTEGER) and EXTRACT(HOUR FROM
\* created_at): the hour 0 .. 23 in every dialect
_get_extract_hour(dialect, created_at) ==
    IF dialect = "sqlite" THEN created_at.hour
    ELSE IF dialect = "mysql" THEN created_at.hour
    ELSE created_at.hour

\* CTE user_hour_stats: per (user, month) of the window, the number of
\* events of each six-hour range
user_hour_stats(log, dialect, start_month, end_month) ==
    LET inWindow == {e \in Rows(log) :
                        StrBetween(MonthTrunc(e.created_at),
                                   MonthFirstDay(start_month), MonthFirstDay(end_month))}
        groups == {<<e.user_hash, MonthTrunc(e.created_at)>> : e \in inWindow}
        of(g) == {e \in inWindow : e.user_hash = g[1] /\ MonthTrunc(e.created_at) = g[2]}
        hours(g, lo, hi) ==
            CountRows(log, {e \in of(g) : _get_extract_hour(dialect, e.created_at) \in lo .. hi})
    IN  {[user_hash |-> g[1],
          month |-> g[2],
          morning_count |-> hours(g, 6, 11),
          afternoon_count |-> hours(g, 12, 17),
          evening_count |-> hours(g, 18, 23),
          night_count |-> hours(g, 0, 5),
          total_count |-> CountRows(log, of(g))] : g \in groups}

\* the CASE with > in place of >=
time_segment_value_strict(st) ==
    IF /\ st.morning_count > st.afternoon_count
       /\ st.morning_count > st.evening_count
       /\ st.morning_count > st.night_count THEN "morning"
    ELSE IF /\ st.afternoon_count > st.morning_count
            /\ st.afternoon_count > st.evening_count
            /\ st.afternoon_count > st.night_count THEN "afternoon"
    ELSE IF /\ st.evening_count > st.morning_count
            /\ st.evening_count > st.afternoon_count
            /\ st.evening_count > st.night_count THEN "evening"
    ELSE IF /\ st.night_count > st.morning_count
            /\ st.night_count > st.afternoon_count
            /\ st.night_count > st.evening_count THEN "night"
    ELSE "mixed"

\* the CASE of CTE user_segments
time_segment_value(st) ==
    IF /\ st.morning_count >= st.afternoon_count
       /\ st.morning_count >= st.evening_count
       /\ st.morning_count >= st.night_count THEN "morning"
    ELSE IF /\ st.afternoon_count >= st.morning_count
            /\ st.afternoon_count >= st.evening_count
            /\ st.afternoon_count >= st.night_count THEN "afternoon"
    ELSE IF /\ st.evening_count >= st.morning_count
            /\ st.evening_count >= st.afternoon_count
            /\ st.evening_count >= st.night_count THEN "evening"
    ELSE IF /\ st.night_count >= st.morning_count
            /\ st.night_count >= st.afternoon_count
            /\ st.night_count >= st.evening_count THEN "night"
    ELSE "mixed"

\* CTE user_segments of the time pattern
time_user_segments(stats) ==
    {[user_hash |-> st.user_hash, month |-> st.month,
      segment_value |-> time_segment_value(st)] : st \in stats}

(***************************************************************************)
(* _analyze_action_type_segment, up to its user_segments CTE               *)
(***************************************************************************)
\* CTE user_action_stats: per (user, month) of the window, the number of
\* events of each action of the vocabulary
user_action_stats(log, start_month, end_month) ==
    LET inWindow == {e \in Rows(log) :
                        StrBetween(MonthTrunc(e.created_at),
                                   MonthFirstDay(start_month), MonthFirstDay(end_month))}
        groups == {<<e.user_hash, MonthTrunc(e.created_at)>> : e \in inWindow}
        of(g) == {e \in inWindow : e.user_hash = g[1] /\ MonthTrunc(e.created_at) = g[2]}
        actions(g, a) == CountRows(log, {e \in of(g) : e.action = a})
    IN  {[user_hash |-> g[1],
          month |-> g[2],
          view_count |-> actions(g, "view"),
          login_count |-> actions(g, "login"),
          comment_count |-> actions(g, "comment"),
          like_count |-> actions(g, "like"),
          post_count |-> actions(g, "post"),
          total_count |-> CountRows(log, of(g))] : g \in groups}

\* the CASE of CTE user_segments
action_segment_value(st) ==
    IF /\ st.view_count >= st.login_count /\ st.view_count >= st.comment_count
       /\ st.view_count >= st.like_count /\ st.view_count >= st.post_count THEN "view"
    ELSE IF /\ st.login_count >= st.view_count /\ st.login_count >= st.comment_count
            /\ st.login_count >= st.like_count /\ st.login_count >= st.post_count THEN "login"
    ELSE IF /\ st.comment_count >= st.view_count /\ st.comment_count >= st.login_count
            /\ st.comment_count >= st.like_count /\ st.comment_count >= st.post_count
         THEN "comment"
    ELSE IF /\ st.like_count >= st.view_count /\ st.like_count >= st.login_count
            /\ st.like_count >= st.comment_count /\ st.like_count >= st.post_count THEN "like"
    ELSE IF /\ st.post_count >= st.view_count /\ st.post_count >= st.login_count
            /\ st.post_count >= st.comment_count /\ st.post_count >= st.like_count THEN "post"
    ELSE "mixed"

\* CTE user_segments of the action types
action_user_segments(stats) ==
    {[user_hash |-> st.user_hash, month |-> st.month,
      segment_value |-> action_segment_value(st)] : st \in stats}

(***************************************************************************)
(* _check_data_quality.  user_hash, created_at and action are NOT NULL     *)
(* columns, so that every stored row is a valid one.                       *)
(***************************************************************************)
_check_data_quality(log, start_month, end_month) ==
    LET inWindow == {e \in Rows(log) :
                        StrBetween(MonthTrunc(e.created_at),
                                   MonthFirstDay(start_month), MonthFirstDay(end_month))}
        total == CountRows(log, inWindow)
        \* created_at IS NOT NULL: the row carries a timestamp
        valid == CountRows(log, {e \in inWindow : /\ e.user_hash # NULL
                                                  /\ "year" \in DOMAIN e.created_at
                                                  /\ e.action # NULL})
        unknown == CountRows(log, {e \in inWindow : \/ e.gender = "Unknown"
                                                    \/ e.age_band = "Unknown"
                                                    \/ e.channel = "Unknown"})
    IN  [total_events |-> total,
         valid_events |-> valid,
         invalid_events |-> total - valid,
         unknown_values |-> unknown,
         unique_users |-> Cardinality({e.user_hash : e \in inWindow}),
         data_completeness |-> IF total > 0 THEN RoundHalfEven10(valid, total) ELSE 0,
         unknown_ratio |-> IF total > 0 THEN RoundHalfEven10(unknown, total) ELSE 0]

(***************************************************************************)
(* _generate_month_range: the while loop over (current_year,               *)
(* current_month), which are compared with the end as Python compares      *)
(* tuples of integers.                                                     *)
(***************************************************************************)
RECURSIVE month_range_loop(_, _, _)
month_range_loop(current, end, months) ==
    \* (current_year, current_month) <= (end_year, end_month_num)
    IF current[1] < end[1] \/ (current[1] = end[1] /\ current[2] <= end[2])
    THEN month_range_loop(\* current_month += 1, past 12 the year advances
                          IF current[2] + 1 > 12 THEN <<current[1] + 1, 1>>
                          ELSE <<current[1], current[2] + 1>>,
                          end, Append(months, current))
    ELSE months

\* the range with the end month left out
_generate_month_range_exclusive(start_month, end_month) ==
    LET months == month_range_loop(start_month, end_month, <<>>)
    IN  SubSeq(months, 1, Len(months) - 1)

_generate_month_range(start_month, end_month) ==
    month_range_loop(start_month, end_month, <<>>)

(***************************************************************************)
(* State machine                                                           *)
(***************************************************************************)
NoResult == [op |-> "none"]

\* no POST /analysis/run is in progress
NoRequest == [pc |-> "idle"]

\* the server has started with a reachable Redis, the table and the cache
\* are empty, no request is in progress
Init ==
    /\ events = EmptyBag
    /\ result = NoResult
    /\ request = NoRequest
    /\ upload = "idle"
    /\ cache = {}
    /\ redis_client = TRUE

\* invalidate_cache(): without a Redis client nothing happens, with one every
\* key of the five default patterns, which are all the keys the endpoints
\* write, is deleted
invalidate_cache ==
    IF ~redis_client THEN cache ELSE {}

\* POST /events/bulk with one event: the row is committed, the cache is
\* invalidated, the response of the previous request is gone
upload_events(universe, bound) ==
    /\ BagCardinality(events) < bound
    /\ \E e \in universe :
          events' = events (+) SetToBag({e})
    /\ cache' = invalidate_cache
    /\ result' = NoResult
    /\ UNCHANGED <<request, upload, redis_client>>

\* events of the monthly metrics: user and month vary
MetricEvents ==
    {Event(u, m[1], m[2], 15, 10, "post", "Unknown", "Unknown", "Unknown") :
        u \in Users, m \in Months}

UploadMetricEvent == upload_events(MetricEvents, MaxEvents)

GetMonthlyMetrics ==
    /\ \E month \in Months, threshold \in 1 .. MaxThreshold :
          result' = [op |-> "metrics", month |-> month, threshold |-> threshold,
                     value |-> get_monthly_metrics(events, month, threshold)]
    /\ UNCHANGED <<events, request, upload, cache, redis_client>>

\* the month lists of a trend request: ascending lists of months, with or
\* without gaps (GET /analysis/trends takes the list from the caller)
RECURSIVE AscendingLists(_)
AscendingLists(S) ==
    IF S = {} THEN {<<>>}
    ELSE LET last == CHOOSE x \in S : \A y \in S : StrLeq(y, x)
             rest == AscendingLists(S \ {last})
         IN  rest \cup {Append(l, last) : l \in rest}

TrendMonths == Months \ {<<2023, 11>>}

TrendLists == AscendingLists(TrendMonths)

GetChurnTrends ==
    /\ \E months \in TrendLists, threshold \in 1 .. MaxThreshold :
          result' = [op |-> "trends", months |-> months, threshold |-> threshold,
                     value |-> get_churn_trends(events, months, threshold)]
    /\ UNCHANGED <<events, request, upload, cache, redis_client>>

Next ==
    \/ UploadMetricEvent
    \/ GetMonthlyMetrics

Spec == Init /\ [][Next]_vars

NextTrends ==
    \/ UploadMetricEvent
    \/ GetChurnTrends

SpecTrends == Init /\ [][NextTrends]_vars

\* events of the attribute segments: user, month and profile vary
SegmentMonths == Months \ {<<2023, 11>>}

SegmentUsers == {"u1", "u2"}

\* (gender, age_band, channel): one profile known throughout, one with a
\* NULL channel and one with the default gender 'Unknown'
SegmentProfiles ==
    {<<"M", "20s", "web">>, <<"F", "20s", NULL>>, <<"Unknown", "20s", "app">>}

SegmentEvents ==
    {Event(u, m[1], m[2], 15, 10, "post", p[1], p[2], p[3]) :
        u \in SegmentUsers, m \in SegmentMonths, p \in SegmentProfiles}

UploadSegmentEvent == upload_events(SegmentEvents, MaxSegmentEvents)

AnalyzeSegment ==
    /\ \E segment_type \in {"gender", "channel"}, start_month \in SegmentMonths,
          end_month \in SegmentMonths :
          /\ StrLeq(start_month, end_month)
          /\ \E rows \in _analyze_segment(events, segment_type, start_month, end_month) :
                result' = [op |-> "segment", segment_type |-> segment_type,
                           start_month |-> start_month, end_month |-> end_month,
                           value |-> rows]
    /\ UNCHANGED <<events, request, upload, cache, redis_client>>

AnalyzeCombinedSegments ==
    /\ \E start_month \in SegmentMonths, end_month \in SegmentMonths :
          /\ StrLeq(start_month, end_month)
          /\ \E rows \in _analyze_combined_segments(events, start_month, end_month) :
                result' = [op |-> "combined",
                           start_month |-> start_month, end_month |-> end_month,
                           value |-> rows]
    /\ UNCHANGED <<events, request, upload, cache, redis_client>>

NextSegment ==
    \/ UploadSegmentEvent
    \/ AnalyzeSegment
    \/ AnalyzeCombinedSegments

SpecSegment == Init /\ [][NextSegment]_vars

\* events of two segment values in two consecutive months, analysed over
\* the window 2023-12 .. 2024-02: results of two and more rows
OrderEvents ==
    {Event(u, 2024, m, 15, 10, "post", g, "20s", c) :
        u \in SegmentUsers, m \in {1, 2}, g \in {"M", "F"}, c \in {"web"}}

UploadOrderEvent == upload_events(OrderEvents, MaxOrderEvents)

AnalyzeGender ==
    /\ \E rows \in _analyze_segment(events, "gender", <<2023, 12>>, <<2024, 2>>) :
          result' = [op |-> "segment", segment_type |-> "gender",
                     start_month |-> <<2023, 12>>, end_month |-> <<2024, 2>>,
                     value |-> rows]
    /\ UNCHANGED <<events, request, upload, cache, redis_client>>

AnalyzeCombined ==
    /\ \E rows \in _analyze_combined_segments(events, <<2023, 12>>, <<2024, 2>>) :
          result' = [op |-> "combined",
                     start_month |-> <<2023, 12>>, end_month |-> <<2024, 2>>,
                     value |-> rows]
    /\ UNCHANGED <<events, request, upload, cache, redis_client>>

NextOrder ==
    \/ UploadOrderEvent
    \/ AnalyzeGender
    \/ AnalyzeCombined

SpecOrder == Init /\ [][NextOrder]_vars

\* events of the weekday pattern: user, month and day vary; the days are
\* the 1st of the month and its first Saturday
PatternUsers == {"u1", "u2"}

FirstSaturday(m) ==
    CHOOSE d \in 1 .. 7 :
        strftime_w([year |-> m[1], month |-> m[2], day |-> d, hour |-> 10]) = 6

PatternEvents ==
    UNION {{Event(u, m[1], m[2], d, 10, "post", "Unknown", "Unknown", "Unknown") :
               u \in PatternUsers, d \in {1, FirstSaturday(m)}} : m \in Months}

UploadPatternEvent == upload_events(PatternEvents, MaxPatternEvents)

AnalyzeWeekdayPattern ==
    /\ \E dialect \in Dialects, start_month \in Months, end_month \in Months :
          /\ StrLeq(start_month, end_month)
          /\ \E rows \in _analyze_weekday_pattern(events, dialect, start_month, end_month) :
                result' = [op |-> "weekday_pattern", dialect |-> dialect,
                           start_month |-> start_month, end_month |-> end_month,
                           value |-> rows]
    /\ UNCHANGED <<events, request, upload, cache, redis_client>>

NextPattern ==
    \/ UploadPatternEvent
    \/ AnalyzeWeekdayPattern

SpecPattern == Init /\ [][NextPattern]_vars

\* events of one user in January 2024, on Monday the 1st, Wednesday the 3rd,
\* Saturday the 6th and Sunday the 7th; the analysis stands at its
\* user_segments CTE, over the window 2023-12 .. 2024-01
LabelDays == {1, 3, 6, 7}

WeekdayLabelEvents ==
    {Event("u1", 2024, 1, d, 10, "post", "Unknown", "Unknown", "Unknown") : d \in LabelDays}

UploadWeekdayLabelEvent == upload_events(WeekdayLabelEvents, MaxLabelEvents)

WeekdayUserSegments ==
    /\ \E dialect \in Dialects :
          result' = [op |-> "user_segments", dialect |-> dialect,
                     value |-> user_segments(user_weekday_stats(
                                   events, dialect, <<2023, 12>>, <<2024, 1>>))]
    /\ UNCHANGED <<events, request, upload, cache, redis_client>>

NextWeekdayLabel ==
    \/ UploadWeekdayLabelEvent
    \/ WeekdayUserSegments

SpecWeekdayLabel == Init /\ [][NextWeekdayLabel]_vars

\* events of one user on 2024-01-15 at the first and the last hour of each
\* six-hour range; the analysis stands at its user_segments CTE
LabelHours == {0, 5, 6, 11, 12, 17, 18, 23}

TimeLabelEvents ==
    {Event("u1", 2024, 1, 15, h, "post", "Unknown", "Unknown", "Unknown") : h \in LabelHours}

UploadTimeLabelEvent == upload_events(TimeLabelEvents, MaxTimeEvents)

TimeUserSegments ==
    /\ \E dialect \in Dialects :
          result' = [op |-> "time_user_segments", dialect |-> dialect,
                     value |-> time_user_segments(user_hour_stats(
                                   events, dialect, <<2023, 12>>, <<2024, 1>>))]
    /\ UNCHANGED <<events, request, upload, cache, redis_client>>

NextTimeLabel ==
    \/ UploadTimeLabelEvent
    \/ TimeUserSegments

SpecTimeLabel == Init /\ [][NextTimeLabel]_vars

\* events of one user on 2024-01-15 with the five actions of the vocabulary
\* and one other action text
LabelActions == {"view", "login", "comment", "like", "post", "share"}

ActionLabelEvents ==
    {Event("u1", 2024, 1, 15, 10, a, "Unknown", "Unknown", "Unknown") : a \in LabelActions}

UploadActionLabelEvent == upload_events(ActionLabelEvents, MaxActionEvents)

ActionUserSegments ==
    /\ result' = [op |-> "action_user_segments",
                  value |-> action_user_segments(user_action_stats(
                                events, <<2023, 12>>, <<2024, 1>>))]
    /\ UNCHANGED <<events, request, upload, cache, redis_client>>

NextActionLabel ==
    \/ UploadActionLabelEvent
    \/ ActionUserSegments

SpecActionLabel == Init /\ [][NextActionLabel]_vars

\* events around the start of January 2024: 30 days and 14 hours before it,
\* exactly 30 days before it, 12 days before it, and on the 15th, the 25th
\* and the 31st of the month
ReactivationTimes ==
    {<<2023, 12, 1, 10>>, <<2023, 12, 2, 0>>, <<2023, 12, 20, 10>>,
     <<2024, 1, 15, 10>>, <<2024, 1, 25, 10>>, <<2024, 1, 31, 10>>}

ReactivationUsers == {"u1", "u2"}

ReactivationEvents ==
    {Event(u, t[1], t[2], t[3], t[4], "post", "Unknown", "Unknown", "Unknown") :
        u \in ReactivationUsers, t \in ReactivationTimes}

UploadReactivationEvent == upload_events(ReactivationEvents, MaxReactivationEvents)

GapDays == {12, 30}

AnalyzeReactivation ==
    /\ \E gap_days \in GapDays :
          result' = [op |-> "reactivation", month |-> <<2024, 1>>, gap_days |-> gap_days,
                     value |-> _analyze_reactivation(events, <<2024, 1>>, gap_days)]
    /\ UNCHANGED <<events, request, upload, cache, redis_client>>

NextReactivation ==
    \/ UploadReactivationEvent
    \/ AnalyzeReactivation
    \/ GetMonthlyMetrics

SpecReactivation == Init /\ [][NextReactivation]_vars

\* events around the cutoffs of February 2024: the day before and the very
\* instant of the 90-day cutoff (2023-11-03 00:00), the day before the
\* 60-day and the 30-day cutoff, and a recent one
InactivityTimes ==
    {<<2023, 11, 2, 10>>, <<2023, 11, 3, 0>>, <<2023, 12, 2, 10>>,
     <<2024, 1, 1, 10>>, <<2024, 1, 15, 10>>}

InactivityUsers == {"u1", "u2"}

InactivityEvents ==
    {Event(u, t[1], t[2], t[3], t[4], "post", "Unknown", "Unknown", "Unknown") :
        u \in InactivityUsers, t \in InactivityTimes}

UploadInactivityEvent == upload_events(InactivityEvents, MaxInactivityEvents)

DaysLists == {<<30, 60, 90>>, <<90>>, <<60, 60>>}

AnalyzeInactivity ==
    /\ \E days_list \in DaysLists :
          result' = [op |-> "inactivity", month |-> <<2024, 2>>, days_list |-> days_list,
                     value |-> _analyze_inactivity(events, <<2024, 2>>, days_list)]
    /\ UNCHANGED <<events, request, upload, cache, redis_client>>

NextInactivity ==
    \/ UploadInactivityEvent
    \/ AnalyzeInactivity
    \/ GetMonthlyMetrics

SpecInactivity == Init /\ [][NextInactivity]_vars

\* the data quality check over the events of the attribute segments
UploadQualityEvent == upload_events(SegmentEvents, MaxQualityEvents)

CheckDataQuality ==
    /\ \E start_month \in SegmentMonths, end_month \in SegmentMonths :
          /\ StrLeq(start_month, end_month)
          /\ result' = [op |-> "quality",
                        start_month |-> start_month, end_month |-> end_month,
                        value |-> _check_data_quality(events, start_month, end_month)]
    /\ UNCHANGED <<events, request, upload, cache, redis_client>>

NextQuality ==
    \/ UploadQualityEvent
    \/ CheckDataQuality

SpecQuality == Init /\ [][NextQuality]_vars

\* the final SELECT on its own: the query stands at its aggregated CTE, whose
\* one row is drawn from the sums a window can produce
AggregatedInputs ==
    UNION {{[segment_value |-> "M", previous_active_sum |-> p,
             current_active_sum |-> c, churned_sum |-> ch] :
               c \in 0 .. 1, ch \in 0 .. p} : p \in 0 .. MaxSum}

InitSelect ==
    /\ events = EmptyBag
    /\ request = NoRequest
    /\ upload = "idle"
    /\ cache = {}
    /\ redis_client = TRUE
    /\ \E strategy \in {"segment", "pattern"}, a \in AggregatedInputs :
          result = [op |-> "aggregated", strategy |-> strategy, row |-> a]

SelectSegmentRows ==
    /\ result.op = "aggregated"
    /\ result.strategy = "segment"
    /\ \E rows \in order_by_churn_rate(segment_select({result.row})) :
          result' = [op |-> "segment", value |-> rows]
    /\ UNCHANGED <<events, request, upload, cache, redis_client>>

SelectPatternRows ==
    /\ result.op = "aggregated"
    /\ result.strategy = "pattern"
    /\ \E rows \in order_by_churn_rate(pattern_select({
              [segment_value |-> result.row.segment_value,
               previous_active |-> result.row.previous_active_sum,
               current_active |-> result.row.current_active_sum,
               churned_users |-> result.row.churned_sum]})) :
          result' = [op |-> "weekday_pattern", value |-> rows]
    /\ UNCHANGED <<events, request, upload, cache, redis_client>>

NextSelect ==
    \/ SelectSegmentRows
    \/ SelectPatternRows

SpecSelect == InitSelect /\ [][NextSelect]_vars

\* the month range on its own: the inputs are any two well-formed months of
\* three years, in either order
RangeMonths == {<<y, m>> : y \in {2023, 2024, 2025}, m \in 1 .. 12}

InitRange ==
    /\ events = EmptyBag
    /\ request = NoRequest
    /\ upload = "idle"
    /\ cache = {}
    /\ redis_client = TRUE
    /\ \E start_month \in RangeMonths, end_month \in RangeMonths :
          result = [op |-> "range_input", start_month |-> start_month,
                    end_month |-> end_month]

GenerateMonthRange ==
    /\ result.op = "range_input"
    /\ result' = [op |-> "month_range", start_month |-> result.start_month,
                  end_month |-> result.end_month,
                  value |-> _generate_month_range(result.start_month, result.end_month)]
    /\ UNCHANGED <<events, request, upload, cache, redis_client>>

SpecRange == InitRange /\ [][GenerateMonthRange]_vars

(***************************************************************************)
(* The HTTP server (backend/main.py).  A handler is a coroutine without an *)
(* await: inside one server process it runs to its end before the next     *)
(* handler starts.  The database and the Redis cache are shared by the     *)
(* server processes that are started on them; the steps below are the      *)
(* database and cache statements of a handler of one process, between      *)
(* which a handler of another process may run.  The three queries of       *)
(* get_monthly_metrics are one step.                                       *)
(*                                                                         *)
(* A request's session reads the table as its dialect's default isolation  *)
(* gives it: the SQLite driver opens no transaction for a SELECT, so each  *)
(* statement reads the rows committed at that time; MySQL (InnoDB,         *)
(* REPEATABLE READ) reads the rows committed at the session's first        *)
(* SELECT throughout.                                                      *)
(*                                                                         *)
(* A cached value is json.dumps(result, default=str), read back with       *)
(* json.loads; on the values below (text, integers, lists, dictionaries    *)
(* with text keys) the round trip gives the value back, month texts and    *)
(* the scaled rates standing for themselves.                               *)
(***************************************************************************)
\* sorted(list) of integers
RECURSIVE sorted(_)
sorted(list) ==
    IF list = <<>> THEN <<>>
    ELSE LET i == CHOOSE i \in DOMAIN list : \A j \in DOMAIN list : list[i] <= list[j]
         IN  <<list[i]>> \o sorted(SubSeq(list, 1, i - 1) \o SubSeq(list, i + 1, Len(list)))

\* f"churn_analysis:{start_month}:{end_month}:{segments_key}:{inactivity_key}:{threshold}"
\* the segments dictionary stands for its sorted items
cache_key(a) ==
    <<"churn_analysis", a.start_month, a.end_month, a.segments,
      sorted(a.inactivity_days), a.threshold>>

\* redis_client.get(key): the set of values stored under the key (at most one)
redis_get(key) == {c.value : c \in {x \in cache : x.key = key}}

\* redis_client.setex(key, ttl, value)
redis_setex(key, value) ==
    {c \in cache : c.key # key} \cup {[key |-> key, value |-> value]}

\* the rows a statement of the request's session reads
session_rows ==
    IF request.dialect = "mysql" THEN request.snapshot ELSE events

\* the except branch of run_full_analysis with the parts computed so far
\* left in the returned object
error_result_partial(parts) ==
    parts @@ [error |-> "exception", timestamp |-> "now",
              execution_time_seconds |-> "elapsed"]

\* the except branch of run_full_analysis
error_result(parts) ==
    [error |-> "exception", timestamp |-> "now", execution_time_seconds |-> "elapsed"]

\* what the language model service hands back: its own text or the notice
\* that no API key is set (the service's failures are caught in
\* _generate_llm_insights_and_actions)
LlmOutcomes == {"llm", "no_api_key"}

\* POST /analysis/run up to the call of run_full_analysis: a cached result
\* is returned as it is, otherwise the analysis starts
RunAnalysisStart(requests) ==
    /\ request = NoRequest
    /\ \E a \in requests, dialect \in Dialects :
          LET cached_result == redis_get(cache_key(a))
          IN  IF redis_client /\ cached_result # {}
              THEN /\ result' = [op |-> "run", args |-> a, cached |-> TRUE,
                                 value |-> CHOOSE v \in cached_result : TRUE]
                   /\ UNCHANGED request
              ELSE /\ request' = [pc |-> "metrics", args |-> a, dialect |-> dialect,
                                  snapshot |-> EmptyBag,
                                  parts |-> [config |->
                                     [start_month |-> a.start_month,
                                      end_month |-> a.end_month,
                                      segments |-> a.segments,
                                      inactivity_days |-> a.inactivity_days]]]
                   /\ UNCHANGED result
    /\ UNCHANGED <<events, upload, cache, redis_client>>

\* 1. metrics = get_monthly_metrics(end_month, threshold): the first
\* statement of the session
RunMetrics ==
    /\ request.pc = "metrics"
    /\ request' = [request EXCEPT
          !.pc = "trends",
          !.snapshot = IF request.dialect = "mysql" THEN events ELSE EmptyBag,
          !.parts = @ @@ [metrics |-> get_monthly_metrics(events, request.args.end_month,
                                                          request.args.threshold)]]
    /\ UNCHANGED <<events, result, upload, cache, redis_client>>

\* 2. trends over the generated month range
RunTrends ==
    /\ request.pc = "trends"
    /\ LET months == _generate_month_range(request.args.start_month, request.args.end_month)
       IN  request' = [request EXCEPT
              !.pc = "segments",
              !.parts = @ @@ [trends |-> get_churn_trends(session_rows, months,
                                                          request.args.threshold)]]
    /\ UNCHANGED <<events, result, upload, cache, redis_client>>

\* 3. the segment analyses that are switched on; the dictionary
\* segment_analysis is the set of its items
RunSegments ==
    /\ request.pc = "segments"
    /\ IF request.args.segments.gender
       THEN \E rows \in _analyze_segment(session_rows, "gender", request.args.start_month,
                                         request.args.end_month) :
               request' = [request EXCEPT
                  !.pc = "inactivity",
                  !.parts = @ @@ [segments |-> {<<"gender", rows>>}]]
       ELSE request' = [request EXCEPT
                  !.pc = "inactivity",
                  !.parts = @ @@ [segments |-> {}]]
    /\ UNCHANGED <<events, result, upload, cache, redis_client>>

\* 4. inactivity
RunInactivity ==
    /\ request.pc = "inactivity"
    /\ request' = [request EXCEPT
          !.pc = "reactivation",
          !.parts = @ @@ [inactivity |-> _analyze_inactivity(session_rows,
                                            request.args.end_month,
                                            request.args.inactivity_days)]]
    /\ UNCHANGED <<events, result, upload, cache, redis_client>>

\* 5. reactivation, with the default gap of 30 days
RunReactivation ==
    /\ request.pc = "reactivation"
    /\ request' = [request EXCEPT
          !.pc = "insights",
          !.parts = @ @@ [reactivation |-> _analyze_reactivation(session_rows,
                                              request.args.end_month, 30)]]
    /\ UNCHANGED <<events, result, upload, cache, redis_client>>

\* 6. the data quality query for the payload, and the insights and actions
\* of the language model service
RunInsights ==
    /\ request.pc = "insights"
    /\ \E generated_by \in LlmOutcomes :
          request' = [request EXCEPT
             !.pc = "return",
             !.parts = @ @@ [insights |-> generated_by, actions |-> generated_by]]
    /\ UNCHANGED <<events, result, upload, cache, redis_client>>

\* the return statement: the data quality query runs once more and the
\* result object is built
RunReturn ==
    /\ request.pc = "return"
    /\ request' = [request EXCEPT
          !.pc = "cache",
          !.parts = @ @@ [analysis_id |-> "now", timestamp |-> "now",
                          data_quality |-> _check_data_quality(session_rows,
                                              request.args.start_month,
                                              request.args.end_month),
                          execution_time_seconds |-> "elapsed"]]
    /\ UNCHANGED <<events, result, upload, cache, redis_client>>

\* a statement of the try block raises (the database refuses the statement,
\* the file is locked by a writer): the except branch builds the result
RunRaise ==
    /\ request.pc \in {"metrics", "trends", "segments", "inactivity", "reactivation",
                      "insights", "return"}
    /\ request' = [request EXCEPT !.pc = "cache", !.parts = error_result(@)]
    /\ UNCHANGED <<events, result, upload, cache, redis_client>>

\* POST /analysis/run after run_full_analysis has returned: the result is
\* stored under the cache key when there is a Redis client, and returned
RunAnalysisCache ==
    /\ request.pc = "cache"
    /\ cache' = IF redis_client
                THEN redis_setex(cache_key(request.args), request.parts)
                ELSE cache
    /\ result' = [op |-> "run", args |-> request.args, cached |-> FALSE,
                  value |-> request.parts]
    /\ request' = NoRequest
    /\ UNCHANGED <<events, upload, redis_client>>

\* POST /events/bulk in another process, first half: the rows are committed
UploadCommit(universe, bound) ==
    /\ upload = "idle"
    /\ BagCardinality(events) < bound
    /\ \E e \in universe :
          events' = events (+) SetToBag({e})
    /\ upload' = "committed"
    /\ UNCHANGED <<result, request, cache, redis_client>>

\* POST /events/bulk, second half: invalidate_cache() after the commit
UploadInvalidate ==
    /\ upload = "committed"
    /\ cache' = invalidate_cache
    /\ upload' = "idle"
    /\ UNCHANGED <<events, result, request, redis_client>>

\* a cache entry reaches its time to live
CacheExpire ==
    /\ \E c \in cache : cache' = cache \ {c}
    /\ UNCHANGED <<events, result, request, upload, redis_client>>

\* events of the server runs: two users in the two months of the analysis
ServerEvents ==
    {Event(u, 2024, m, 15, 10, "post", "M", "20s", "web") :
        u \in {"u1", "u2"}, m \in {1, 2}}

\* the analysis of 2024-01 .. 2024-02 by gender
RunRequests ==
    {[start_month |-> <<2024, 1>>, end_month |-> <<2024, 2>>,
      segments |-> [gender |-> TRUE], inactivity_days |-> <<30, 60, 90>>,
      threshold |-> 1]}

RunServerStart == RunAnalysisStart(RunRequests)

InitServer ==
    /\ events = EmptyBag
    /\ result = NoResult
    /\ request = NoRequest
    /\ upload = "idle"
    /\ cache = {}
    /\ redis_client \in BOOLEAN

NextServer ==
    \/ UploadCommit(ServerEvents, MaxServerEvents)
    \/ UploadInvalidate
    \/ RunServerStart
    \/ RunMetrics
    \/ RunTrends
    \/ RunSegments
    \/ RunInactivity
    \/ RunReactivation
    \/ RunInsights
    \/ RunReturn
    \/ RunRaise
    \/ RunAnalysisCache
    \/ CacheExpire

SpecServer == InitServer /\ [][NextServer]_vars

\* the requests POST /analysis/run accepts: main.py's AnalysisRequest takes
\* any two month texts and any integer threshold
InputRequests ==
    {[start_month |-> <<2024, 1>>, end_month |-> e,
      segments |-> [gender |-> TRUE], inactivity_days |-> <<30, 60, 90>>,
      threshold |-> t] : e \in {<<2024, 2>>, <<2023, 12>>}, t \in {-1, 0, 1}}

NextInputs ==
    \/ upload_events(ServerEvents, MaxInputEvents)
    \/ RunAnalysisStart(InputRequests)
    \/ RunMetrics
    \/ RunTrends
    \/ RunSegments
    \/ RunInactivity
    \/ RunReactivation
    \/ RunInsights
    \/ RunReturn
    \/ RunAnalysisCache

\* the server has started without Redis (redis_client is None): every
\* request runs its analysis
InitInputs ==
    /\ events = EmptyBag
    /\ result = NoResult
    /\ request = NoRequest
    /\ upload = "idle"
    /\ cache = {}
    /\ redis_client = FALSE

SpecInputs == InitInputs /\ [][NextInputs]_vars

\* the endpoints are asked for the month 2024-02, the window 2024-02 ..
\* 2024-02 and the month list 2024-01, 2024-02
\* GET /analysis/metrics: the cache is used when there is a Redis client,
\* the metrics are those of the default threshold 1
GetMetricsEndpoint ==
    /\ request = NoRequest
    /\ \E month \in {<<2024, 2>>} :
          LET cache_key_ == <<"metrics", month>>
              cached_result == redis_get(cache_key_)
              metrics == get_monthly_metrics(events, month, 1)
          IN  IF redis_client /\ cached_result # {}
              THEN /\ result' = [op |-> "endpoint", path |-> "/analysis/metrics",
                                 status |-> 200, cached |-> TRUE,
                                 value |-> CHOOSE v \in cached_result : TRUE]
                   /\ UNCHANGED cache
              ELSE /\ cache' = IF redis_client THEN redis_setex(cache_key_, metrics)
                               ELSE cache
                   /\ result' = [op |-> "endpoint", path |-> "/analysis/metrics",
                                 status |-> 200, cached |-> FALSE, value |-> metrics]
    /\ UNCHANGED <<events, request, upload, redis_client>>

\* GET /analysis/segments: gender, age_band and channel
GetSegmentAnalysisEndpoint ==
    /\ request = NoRequest
    /\ \E start_month \in {<<2024, 2>>}, end_month \in {<<2024, 2>>} :
          LET cache_key_ == <<"segments", start_month, end_month>>
              cached_result == redis_get(cache_key_)
          IN  IF redis_client /\ cached_result # {}
              THEN /\ result' = [op |-> "endpoint", path |-> "/analysis/segments",
                                 status |-> 200, cached |-> TRUE,
                                 value |-> CHOOSE v \in cached_result : TRUE]
                   /\ UNCHANGED cache
              ELSE \E gender \in _analyze_segment(events, "gender", start_month, end_month),
                      age_band \in _analyze_segment(events, "age_band", start_month, end_month),
                      channel \in _analyze_segment(events, "channel", start_month, end_month) :
                      LET segments == [gender |-> gender, age_band |-> age_band,
                                       channel |-> channel]
                      IN  /\ cache' = IF redis_client THEN redis_setex(cache_key_, segments)
                                      ELSE cache
                          /\ result' = [op |-> "endpoint", path |-> "/analysis/segments",
                                        status |-> 200, cached |-> FALSE,
                                        value |-> segments]
    /\ UNCHANGED <<events, request, upload, redis_client>>

\* GET /analysis/trends: redis_client.get and redis_client.setex are called
\* on the client whatever it is; on None the attribute access raises before
\* the try block, and the server answers 500
GetChurnTrendsEndpoint ==
    /\ request = NoRequest
    /\ \E months \in {<<<<2024, 1>>, <<2024, 2>>>>} :
          LET cache_key_ == <<"trends", months>>
              cached_result == redis_get(cache_key_)
              trends == get_churn_trends(events, months, 1)
          IN  IF ~redis_client
              THEN /\ result' = [op |-> "endpoint", path |-> "/analysis/trends",
                                 status |-> 500, cached |-> FALSE,
                                 value |-> "AttributeError"]
                   /\ UNCHANGED cache
              ELSE IF cached_result # {}
              THEN /\ result' = [op |-> "endpoint", path |-> "/analysis/trends",
                                 status |-> 200, cached |-> TRUE,
                                 value |-> CHOOSE v \in cached_result : TRUE]
                   /\ UNCHANGED cache
              ELSE /\ cache' = redis_setex(cache_key_, trends)
                   /\ result' = [op |-> "endpoint", path |-> "/analysis/trends",
                                 status |-> 200, cached |-> FALSE, value |-> trends]
    /\ UNCHANGED <<events, request, upload, redis_client>>

\* GET /reports/summary/{month}: the monthly metrics, cached as in
\* GET /analysis/trends
GetMonthlyReportEndpoint ==
    /\ request = NoRequest
    /\ \E month \in {<<2024, 2>>} :
          LET cache_key_ == <<"report", month>>
              cached_result == redis_get(cache_key_)
              report == get_monthly_metrics(events, month, 1)
          IN  IF ~redis_client
              THEN /\ result' = [op |-> "endpoint", path |-> "/reports/summary",
                                 status |-> 500, cached |-> FALSE,
                                 value |-> "AttributeError"]
                   /\ UNCHANGED cache
              ELSE IF cached_result # {}
              THEN /\ result' = [op |-> "endpoint", path |-> "/reports/summary",
                                 status |-> 200, cached |-> TRUE,
                                 value |-> CHOOSE v \in cached_result : TRUE]
                   /\ UNCHANGED cache
              ELSE /\ cache' = redis_setex(cache_key_, report)
                   /\ result' = [op |-> "endpoint", path |-> "/reports/summary",
                                 status |-> 200, cached |-> FALSE, value |-> report]
    /\ UNCHANGED <<events, request, upload, redis_client>>

UploadEndpointEvent ==
    /\ request = NoRequest
    /\ upload_events(ServerEvents, MaxEndpointEvents)

\* one server process with or without Redis: a handler runs to its end
\* before the next one starts
NextEndpoints ==
    \/ UploadEndpointEvent
    \/ GetMetricsEndpoint
    \/ GetSegmentAnalysisEndpoint
    \/ GetChurnTrendsEndpoint
    \/ GetMonthlyReportEndpoint
    \/ RunServerStart
    \/ RunMetrics
    \/ RunTrends
    \/ RunSegments
    \/ RunInactivity
    \/ RunReactivation
    \/ RunInsights
    \/ RunReturn
    \/ RunAnalysisCache

SpecEndpoints == InitServer /\ [][NextEndpoints]_vars

(***************************************************************************)
(* Reference notions the properties are stated with: plain counting over   *)
(* the event log, independent of the queries above.                        *)
(***************************************************************************)
\* number of events of user u whose timestamp lies in calendar month m
EventsIn(log, u, m) ==
    CountRows(log, {e \in Rows(log) : /\ e.user_hash = u
                                      /\ e.created_at.year = m[1]
                                      /\ e.created_at.month = m[2]})

\* users with at least t events in calendar month m
ActiveSet(log, m, t) == {u \in Users : EventsIn(log, u, m) >= t}

\* the calendar month before m, by month arithmetic
CalendarPrev(m) ==
    LET idx == m[1] * 12 + (m[2] - 1) - 1
    IN  <<idx \div 12, (idx % 12) + 1>>

\* r is num/den*100 rounded to one decimal, ties to even (in tenths)
IsRate10(r, num, den) ==
    LET diff == IF num * 1000 >= den * r THEN num * 1000 - den * r
                ELSE den * r - num * 1000
    IN  /\ r \in 0 .. 1000
        /\ 2 * diff <= den
        /\ (2 * diff = den => r % 2 = 0)

\* position of a calendar month on the month line
MonthIdx(m) == m[1] * 12 + (m[2] - 1)

\* users having an event in calendar month m whose attribute attr is v
UsersWith(log, attr, v, m) ==
    {e.user_hash : e \in {x \in Rows(log) : /\ x[attr] = v
                                            /\ x.created_at.year = m[1]
                                            /\ x.created_at.month = m[2]}}

\* the known values of an attribute in the log
KnownValues(log, attr) == {e[attr] : e \in Rows(log)} \ {"Unknown", NULL}

\* the pairs of consecutive calendar months (p, c) within [start, end]
WindowPairs(start, end) ==
    {pc \in Months \X Months :
        /\ MonthIdx(pc[2]) = MonthIdx(pc[1]) + 1
        /\ MonthIdx(start) <= MonthIdx(pc[1])
        /\ MonthIdx(pc[2]) <= MonthIdx(end)}

\* r is num/den*100 to one decimal, whichever way a tie is rounded
IsNearest10(r, num, den) ==
    LET diff == IF num * 1000 >= den * r THEN num * 1000 - den * r
                ELSE den * r - num * 1000
    IN  r \in 0 .. 1000 /\ 2 * diff <= den

C2_RetainedPlusChurned ==
    result.op = "metrics" =>
        result.value.retained_users + result.value.churned_users
            = result.value.previous_active_users

\* a result with both retained and churned users
C2_Witness ==
    /\ result.op = "metrics"
    /\ result.value.retained_users >= 1
    /\ result.value.churned_users >= 1

\* C3: active_users >= 0, both rates lie in [0, 100], and both rates are 0
\* when previous_active_users = 0.
C3_RatesInRange ==
    result.op = "metrics" =>
        /\ result.value.active_users >= 0
        /\ result.value.churn_rate \in 0 .. 1000
        /\ result.value.retention_rate \in 0 .. 1000
        /\ (result.value.previous_active_users = 0 =>
                /\ result.value.churn_rate = 0
                /\ result.value.retention_rate = 0)

\* no previous-active user although the target month has active users
C3_Witness ==
    /\ result.op = "metrics"
    /\ result.value.previous_active_users = 0
    /\ result.value.active_users >= 1
    /\ result.value.churn_rate = 0

\* C4: on the same log and month, a larger threshold gives no more active
\* users and no more previous-active users.
C4_ThresholdMonotone ==
    [][(/\ result.op = "metrics"
        /\ result'.op = "metrics"
        /\ events' = events
        /\ result'.month = result.month
        /\ result'.threshold > result.threshold)
       => /\ result'.value.active_users <= result.value.active_users
          /\ result'.value.previous_active_users <= result.value.previous_active_users]_vars

\* threshold 2 keeps one user and drops another who has a single event
C4_Witness ==
    /\ result.op = "metrics"
    /\ result.threshold = 2
    /\ result.value.active_users >= 1
    /\ \E u \in Users : EventsIn(events, u, result.month) = 1

\* C5 (as amended): get_churn_trends on an ascending list of N periods
\* returns N-1 rows (none for N <= 1); row i is for months[i+1], in input
\* order, and carries the churn_rate, active_users and churned_users of
\* months[i+1] against the calendar month before it; months[0] is not a row.
C5_TrendRows ==
    result.op = "trends" =>
        LET months == result.months
            trends == result.value.trends
            t == result.threshold
        IN  /\ Len(trends) = (IF Len(months) <= 1 THEN 0 ELSE Len(months) - 1)
            /\ \A i \in DOMAIN trends :
                  LET Curr == ActiveSet(events, months[i + 1], t)
                      Prev == ActiveSet(events, CalendarPrev(months[i + 1]), t)
                  IN  /\ trends[i].month = months[i + 1]
                      /\ trends[i].month # months[1]
                      /\ trends[i].active_users = Cardinality(Curr)
                      /\ trends[i].churned_users = Cardinality(Prev \ Curr)
                      /\ IF Prev = {} THEN trends[i].churn_rate = 0
                         ELSE IsRate10(trends[i].churn_rate,
                                       Cardinality(Prev \ Curr), Cardinality(Prev))

\* a list of three periods whose second row has churned users
C5_Witness ==
    /\ result.op = "trends"
    /\ Len(result.months) = 3
    /\ Len(result.value.trends) = 2
    /\ result.value.trends[2].churned_users >= 1

\* C5 as stated: row i carries the figures of the pair (months[i], months[i+1])
C5_Original ==
    result.op = "trends" =>
        LET months == result.months
            trends == result.value.trends
            t == result.threshold
        IN  /\ Len(trends) = (IF Len(months) <= 1 THEN 0 ELSE Len(months) - 1)
            /\ \A i \in DOMAIN trends :
                  LET Curr == ActiveSet(events, months[i + 1], t)
                      Prev == ActiveSet(events, months[i], t)
                  IN  /\ trends[i].month = months[i + 1]
                      /\ trends[i].active_users = Cardinality(Curr)
                      /\ trends[i].churned_users = Cardinality(Prev \ Curr)
                      /\ IF Prev = {} THEN trends[i].churn_rate = 0
                         ELSE IsRate10(trends[i].churn_rate,
                                       Cardinality(Prev \ Curr), Cardinality(Prev))

\* C6: in a segment analysis, a user of segment value v in the previous
\* month who is active in the current month is not counted as churned from
\* v, whatever their label in the current month: the churned_users of the
\* row of v count only users of v who have no event in the following month.
C6_Original ==
    result.op = "segment" =>
        \A i \in DOMAIN result.value :
            LET v == result.value[i].segment_value
                gone(pc) == {u \in UsersWith(events, result.segment_type, v, pc[1]) :
                                EventsIn(events, u, pc[2]) = 0}
                pairs == WindowPairs(result.start_month, result.end_month)
            IN  result.value[i].churned_users
                    <= SumFn([pc \in pairs |-> Cardinality(gone(pc))])

\* C8: over [M, M+1] the users of value v in month M are the previous-active
\* set: a value with p > 0 users in M, c of them without event in M+1, has a
\* row with previous_active = p, churned_users = c and churn_rate = c/p*100.
C8_Original ==
    (result.op = "segment" /\ MonthIdx(result.end_month) = MonthIdx(result.start_month) + 1) =>
        \A v \in KnownValues(events, result.segment_type) :
            LET P == UsersWith(events, result.segment_type, v, result.start_month)
                C == {u \in P : EventsIn(events, u, result.end_month) = 0}
            IN  P # {} =>
                  \E i \in DOMAIN result.value :
                      /\ result.value[i].segment_value = v
                      /\ result.value[i].previous_active = Cardinality(P)
                      /\ result.value[i].churned_users = Cardinality(C)
                      /\ IsNearest10(result.value[i].churn_rate,
                                     Cardinality(C), Cardinality(P))

\* C9: gender analysis over [M, M+1]: a value all of whose users of M have
\* no event in M+1 has a row with churn_rate 100; a value all of whose users
\* of M have an event in M+1 has a row with churn_rate 0.
C9_Original ==
    (/\ result.op = "segment"
     /\ result.segment_type = "gender"
     /\ MonthIdx(result.end_month) = MonthIdx(result.start_month) + 1) =>
        \A v \in KnownValues(events, "gender") :
            LET P == UsersWith(events, "gender", v, result.start_month)
                back == {u \in P : EventsIn(events, u, result.end_month) > 0}
                rowWith(rate) == \E i \in DOMAIN result.value :
                                    /\ result.value[i].segment_value = v
                                    /\ result.value[i].churn_rate = rate
            IN  /\ (P # {} /\ back = {}) => rowWith(1000)
                /\ (P # {} /\ back = P) => rowWith(0)

\* C7: the previous_active of a row is the sum, over the month pairs of the
\* window in which its segment value occurs, of the pair's distinct users,
\* not de-duplicated across pairs (stated for windows without event in the
\* start month).
C7_Original ==
    (/\ result.op = "weekday_pattern"
     /\ \A u \in Users : EventsIn(events, u, result.start_month) = 0) =>
        \A i \in DOMAIN result.value :
            LET v == result.value[i].segment_value
                us == user_segments(user_weekday_stats(events, result.dialect,
                                                      <<2023, 1>>, <<2024, 12>>))
                members(m) == {x.user_hash : x \in {y \in us : y.segment_value = v /\ y.month = m}}
                pairs == {pc \in WindowPairs(result.start_month, result.end_month) :
                             members(pc[2]) # {}}
            IN  result.value[i].previous_active
                    = SumFn([pc \in pairs |-> Cardinality(members(pc[1]))])

\* C10: a returned row has is_uncertain set exactly when its accumulated
\* previous_active is below the minimum sample size 50.
C10_UncertainIffBelowMinSample ==
    /\ result.op = "segment" =>
          \A i \in DOMAIN result.value :
              /\ result.value[i].is_uncertain \in {0, 1}
              /\ (result.value[i].is_uncertain = 1 <=> result.value[i].previous_active < 50)
    /\ result.op = "weekday_pattern" =>
          \A i \in DOMAIN result.value :
              /\ result.value[i].is_uncertain \in BOOLEAN
              /\ (result.value[i].is_uncertain <=> result.value[i].previous_active < 50)

\* a row with exactly 50 previous-active users, not flagged
C10_Witness ==
    /\ result.op = "segment"
    /\ \E i \in DOMAIN result.value :
          /\ result.value[i].previous_active = 50
          /\ result.value[i].is_uncertain = 0

\* the events of the log whose attributes attrs all hold a known value
KnownEvents(log, attrs) ==
    LET keep == {e \in DOMAIN log : \A a \in attrs : e[a] \notin {NULL, "Unknown"}}
    IN  [e \in keep |-> log[e]]

\* C11: no row of the gender, age_band, channel or combined strategy has a
\* segment value that is, or has a component that is, Unknown or NULL, and
\* the events whose relevant attribute is Unknown or NULL contribute to no
\* count: the rows are those of the log without these events.
C11_UnknownExcluded ==
    /\ result.op = "segment" =>
          /\ \A i \in DOMAIN result.value :
                result.value[i].segment_value \notin {NULL, "Unknown"}
          /\ result.value \in _analyze_segment(
                KnownEvents(events, {result.segment_type}),
                result.segment_type, result.start_month, result.end_month)
    /\ result.op = "combined" =>
          /\ \A i \in DOMAIN result.value : \A k \in 1 .. 3 :
                result.value[i].segment_value[k] \notin {NULL, "Unknown"}
          /\ result.value \in _analyze_combined_segments(
                KnownEvents(events, {"gender", "age_band", "channel"}),
                result.start_month, result.end_month)

\* a channel analysis that returns a row while the window holds, after its
\* start month, an event of a counted user whose channel is NULL
C11_Witness ==
    /\ result.op = "segment"
    /\ result.segment_type = "channel"
    /\ Len(result.value) > 0
    /\ \E e \in Rows(events) :
          /\ e.channel = NULL
          /\ StrLess(result.start_month, MonthTrunc(e.created_at))
          /\ StrLeq(MonthTrunc(e.created_at), result.end_month)
          /\ \E x \in Rows(events) : x.user_hash = e.user_hash /\ x.channel = "web"

\* C12: every segment_churn result list is ordered by churn_rate,
\* non-increasing: each row's churn_rate is at least the next row's.
C12_OrderedByChurnRate ==
    result.op \in {"segment", "combined"} =>
        \A i \in 1 .. Len(result.value) - 1 :
            result.value[i].churn_rate >= result.value[i + 1].churn_rate

\* a result of two rows with different churn rates
C12_Witness ==
    /\ result.op \in {"segment", "combined"}
    /\ Len(result.value) >= 2
    /\ result.value[1].churn_rate > result.value[2].churn_rate

RECURSIVE DaysBefore(_, _)
DaysBefore(y, m) ==
    IF y = 2023 /\ m = 1 THEN 0
    ELSE LET p == CalendarPrev(<<y, m>>)
         IN  DaysBefore(p[1], p[2]) + DaysInMonth(p[1], p[2])

DayNumber(y, m, d) == DaysBefore(y, m) + d - 1

\* Monday .. Friday
IsWeekday(created_at) ==
    DayNumber(created_at.year, created_at.month, created_at.day) % 7 \in 1 .. 5

\* number of events of user u in calendar month m that fall on Monday-Friday
WeekdayEventsIn(log, u, m) ==
    CountRows(log, {e \in Rows(log) : /\ e.user_hash = u
                                      /\ MonthTrunc(e.created_at) = m
                                      /\ IsWeekday(e.created_at)})

\* C14: under SQLite and under MySQL, a user-month in which at least 70% of
\* the events fall on Monday-Friday is labelled weekday-heavy.
C14_Original ==
    result.op = "user_segments" =>
        \A r \in result.value :
            10 * WeekdayEventsIn(events, r.user_hash, r.month)
                >= 7 * EventsIn(events, r.user_hash, r.month)
            => r.segment_value = "weekday-heavy"

\* C15: a user-month whose events all fall on Monday-Friday is labelled
\* weekday-only and one whose events all fall on Saturday/Sunday is labelled
\* weekend-only (stated for SQLite, whose day numbering the query is
\* written for).
C15_Original ==
    (result.op = "user_segments" /\ result.dialect = "sqlite") =>
        \A r \in result.value :
            /\ WeekdayEventsIn(events, r.user_hash, r.month)
                  = EventsIn(events, r.user_hash, r.month)
               => r.segment_value = "weekday-only"
            /\ WeekdayEventsIn(events, r.user_hash, r.month) = 0
               => r.segment_value = "weekend-only"

\* the time-of-day ranges in their order of priority
Buckets ==
    <<[label |-> "morning", from |-> 6, to |-> 11],
      [label |-> "afternoon", from |-> 12, to |-> 17],
      [label |-> "evening", from |-> 18, to |-> 23],
      [label |-> "night", from |-> 0, to |-> 5]>>

\* number of events of user u in calendar month m in the k-th range
BucketCount(log, u, m, k) ==
    CountRows(log, {e \in Rows(log) : /\ e.user_hash = u
                                      /\ MonthTrunc(e.created_at) = m
                                      /\ e.created_at.hour \in Buckets[k].from .. Buckets[k].to})

\* C16: the time-of-day label of a user-month is the range (morning 06-11h,
\* afternoon 12-17h, evening 18-23h, night 00-05h) holding the most of the
\* user's events of the month, the first such range in the order morning,
\* afternoon, evening, night on a tie; it is a function of the four counts.
C16_TimeLabelIsFirstMax ==
    result.op = "time_user_segments" =>
        \A r \in result.value :
            \E k \in DOMAIN Buckets :
                /\ r.segment_value = Buckets[k].label
                /\ \A j \in DOMAIN Buckets :
                      BucketCount(events, r.user_hash, r.month, j)
                          <= BucketCount(events, r.user_hash, r.month, k)
                /\ \A j \in 1 .. k - 1 :
                      BucketCount(events, r.user_hash, r.month, j)
                          < BucketCount(events, r.user_hash, r.month, k)

\* a user-month with as many afternoon as morning events and fewer evening
\* ones, labelled morning
C16_Witness ==
    /\ result.op = "time_user_segments"
    /\ \E r \in result.value :
          /\ r.segment_value = "morning"
          /\ BucketCount(events, r.user_hash, r.month, 1) = 2
          /\ BucketCount(events, r.user_hash, r.month, 2) = 2
          /\ BucketCount(events, r.user_hash, r.month, 3) = 0

\* the action vocabulary in its order of priority
Vocabulary == <<"view", "login", "comment", "like", "post">>

\* number of events of user u in calendar month m with action a
ActionCount(log, u, m, a) ==
    CountRows(log, {e \in Rows(log) : /\ e.user_hash = u
                                      /\ MonthTrunc(e.created_at) = m
                                      /\ e.action = a})

\* C17: the action-type label of a user-month is its most frequent action
\* of the vocabulary view, login, comment, like, post, the first in this
\* order on a tie, and it is mixed when the user-month has no event with an
\* action of the vocabulary.
C17_Original ==
    result.op = "action_user_segments" =>
        \A r \in result.value :
            LET n(k) == ActionCount(events, r.user_hash, r.month, Vocabulary[k])
            IN  IF \A k \in DOMAIN Vocabulary : n(k) = 0
                THEN r.segment_value = "mixed"
                ELSE \E k \in DOMAIN Vocabulary :
                        /\ r.segment_value = Vocabulary[k]
                        /\ \A j \in DOMAIN Vocabulary : n(j) <= n(k)
                        /\ \A j \in 1 .. k - 1 : n(j) < n(k)

\* points in time, in hours since 2023-01-01 00:00
Instant(created_at) ==
    24 * DayNumber(created_at.year, created_at.month, created_at.day) + created_at.hour

PeriodStart(m) == 24 * DayNumber(m[1], m[2], 1)

\* the instants of the events of user u before the start of month m
InstantsBefore(log, u, m) ==
    {Instant(e.created_at) : e \in {x \in Rows(log) :
        x.user_hash = u /\ Instant(x.created_at) < PeriodStart(m)}}

\* the instants of the events of user u in calendar month m
InstantsIn(log, u, m) ==
    {Instant(e.created_at) : e \in {x \in Rows(log) :
        x.user_hash = u /\ MonthTrunc(x.created_at) = m}}

Latest(S) == CHOOSE x \in S : \A y \in S : y <= x

Earliest(S) == CHOOSE x \in S : \A y \in S : x <= y

\* users with an event in calendar month m whose latest event before the
\* period start is more than gap_days days before the period start
DormantBeforeStart(log, m, gap_days) ==
    {u \in Users : /\ InstantsIn(log, u, m) # {}
                   /\ InstantsBefore(log, u, m) # {}
                   /\ Latest(InstantsBefore(log, u, m)) < PeriodStart(m) - 24 * gap_days}

\* users with an event in calendar month m whose first event of the month
\* comes more than gap_days days after their latest earlier event
ReturnedAfterGap(log, m, gap_days) ==
    {u \in Users : /\ InstantsIn(log, u, m) # {}
                   /\ InstantsBefore(log, u, m) # {}
                   /\ Earliest(InstantsIn(log, u, m)) - Latest(InstantsBefore(log, u, m))
                         > 24 * gap_days}

\* C18: _analyze_reactivation(month, gap_days), and reactivated_users of
\* get_monthly_metrics with gap_days = 30, is the number of users with an
\* event anywhere in the calendar month, first through last day, whose
\* latest event before the period start exists and is earlier than the
\* period start minus gap_days days.
C18_Original ==
    /\ result.op = "reactivation" =>
          result.value.reactivated_users
              = Cardinality(DormantBeforeStart(events, result.month, result.gap_days))
    /\ result.op = "metrics" =>
          result.value.reactivated_users
              = Cardinality(DormantBeforeStart(events, result.month, 30))

\* C19: the users counted are those who return in the month
\* after a gap, from their latest earlier event to their return event, of
\* more than gap_days days (stated for logs without event on a 31st, the
\* day the query's  created_at <= 'YYYY-MM-31'  leaves out).
C19_Original ==
    (/\ result.op = "reactivation"
     /\ \A e \in Rows(events) : e.created_at.day # 31) =>
        result.value.reactivated_users
            = Cardinality(ReturnedAfterGap(events, result.month, result.gap_days))

\* users whose latest event of the whole log is earlier than the first day
\* of month m minus d days
InactiveSince(log, m, d) ==
    {u \in Users : /\ \E e \in Rows(log) : e.user_hash = u
                   /\ \A e \in Rows(log) :
                         e.user_hash = u => Instant(e.created_at) < PeriodStart(m) - 24 * d}

EventsOfWindow(log, start, end) ==
    {e \in Rows(log) : /\ MonthIdx(start) <= MonthIdx(MonthTrunc(e.created_at))
                       /\ MonthIdx(MonthTrunc(e.created_at)) <= MonthIdx(end)}

\* C21: _check_data_quality(start, end) covers the events of the calendar
\* months start .. end, both included: total_events is their number,
\* unique_users the number of their distinct users, valid_events is at most
\* total_events, data_completeness and unknown_ratio lie in [0, 100] and
\* are 0 when total_events is 0.
C21_Original ==
    result.op = "quality" =>
        LET inWindow == EventsOfWindow(events, result.start_month, result.end_month)
            q == result.value
        IN  /\ q.total_events = CountRows(events, inWindow)
            /\ q.unique_users = Cardinality({e.user_hash : e \in inWindow})
            /\ q.valid_events <= q.total_events
            /\ q.data_completeness \in 0 .. 1000
            /\ q.unknown_ratio \in 0 .. 1000
            /\ q.total_events = 0 => (q.data_completeness = 0 /\ q.unknown_ratio = 0)

\* C26: for well-formed start <= end, _generate_month_range(start, end) is
\* the list of every calendar month from start through end, ascending,
\* without gap or repeat, and the previous month of each element after the
\* first is the element before it, also from January back to December of
\* the year before.
C26_MonthRangeContiguous ==
    (/\ result.op = "month_range"
     /\ MonthIdx(result.start_month) <= MonthIdx(result.end_month))
    => LET range == result.value
       IN  /\ Len(range) = MonthIdx(result.end_month) - MonthIdx(result.start_month) + 1
           /\ \A i \in 1 .. Len(range) :
                 /\ range[i][2] \in 1 .. 12
                 /\ MonthIdx(range[i]) = MonthIdx(result.start_month) + (i - 1)
           /\ \A i \in 2 .. Len(range) :
                 /\ _get_previous_month(range[i]) = range[i - 1]
                 /\ CalendarPrev(range[i]) = range[i - 1]

\* a range from a month of 2023 into 2024 has been generated
C26_Witness ==
    /\ result.op = "month_range"
    /\ result.start_month[1] = 2023
    /\ result.end_month[1] = 2024
    /\ Len(result.value) >= 2
    /\ \E i \in 2 .. Len(result.value) :
          result.value[i][2] = 1 /\ result.value[i - 1] = <<2023, 12>>

\* C30: for every event log, month and threshold >= 1, get_monthly_metrics
\* returns reactivated_users <= active_users.
C30_Original ==
    result.op = "metrics"
    => result.value.reactivated_users <= result.value.active_users

\* the fields of the object run_full_analysis returns when a step has raised
ErrorFields == {"error", "timestamp", "execution_time_seconds"}

\* the parts of an analysis
PartFields ==
    {"metrics", "trends", "segments", "inactivity", "reactivation", "data_quality"}

\* the fields of a completed analysis
AnalysisFields ==
    PartFields \cup {"analysis_id", "timestamp", "config", "insights", "actions",
                     "execution_time_seconds"}

\* C22: run_full_analysis is atomic for the caller: when a step raises, the
\* returned object holds the error, a timestamp and the elapsed time and
\* none of the parts; when no step raises it holds every part and no error
\* field; the endpoint hands this object to the caller as it is.
C22_Atomic ==
    [][/\ (request.pc # "idle" /\ request.pc # "cache" /\ request'.pc = "cache")
          => IF RunRaise
             THEN /\ DOMAIN request'.parts = ErrorFields
                  /\ DOMAIN request'.parts \cap PartFields = {}
             ELSE /\ DOMAIN request'.parts = AnalysisFields
                  /\ "error" \notin DOMAIN request'.parts
       /\ (request.pc = "cache" /\ request'.pc = "idle")
          => /\ result'.op = "run"
             /\ result'.value = request.parts
             /\ \/ DOMAIN result'.value = ErrorFields
                \/ DOMAIN result'.value = AnalysisFields]_vars

\* a run over a table with events has raised after its metrics were
\* computed, and the caller has received the error object
C22_Witness ==
    /\ result.op = "run"
    /\ ~result.cached
    /\ "error" \in DOMAIN result.value
    /\ events # EmptyBag

\* C23: an analysis requested with an end month earlier than the start
\* month is a reported error: POST /analysis/run answers with an error and
\* not with an analysis result.
C23_Original ==
    (/\ result.op = "run"
     /\ result.args.threshold >= 1
     /\ MonthIdx(result.args.end_month) < MonthIdx(result.args.start_month))
    => "error" \in DOMAIN result.value

\* C24: a threshold below 1 is reported as an input error: POST
\* /analysis/run does not answer it with ordinary metrics.
C24_Original ==
    (/\ result.op = "run"
     /\ MonthIdx(result.args.start_month) <= MonthIdx(result.args.end_month)
     /\ result.args.threshold < 1)
    => /\ "error" \in DOMAIN result.value
       /\ "metrics" \notin DOMAIN result.value

\* every part of the analysis value v of request a is what the event set
\* log gives
ComputedFrom(v, a, log) ==
    /\ v.metrics = get_monthly_metrics(log, a.end_month, a.threshold)
    /\ v.trends = get_churn_trends(log, _generate_month_range(a.start_month, a.end_month),
                                   a.threshold)
    /\ \A item \in v.segments :
          item[2] \in _analyze_segment(log, item[1], a.start_month, a.end_month)
    /\ v.inactivity = _analyze_inactivity(log, a.end_month, a.inactivity_days)
    /\ v.reactivation = _analyze_reactivation(log, a.end_month, 30)
    /\ v.data_quality = _check_data_quality(log, a.start_month, a.end_month)

\* C25: while a run_full_analysis call is in progress and events are
\* committed by the bulk upload, every part of the call's result is computed
\* from one and the same event set, one that the table held during the call
\* (the table only grows, so such a set is contained in the present one).
C25_Original ==
    (/\ result.op = "run"
     /\ ~result.cached
     /\ "error" \notin DOMAIN result.value)
    => \E log \in SubBag(events) : ComputedFrom(result.value, result.args, log)

\* the request a cache key stands for
RequestOfKey(key) ==
    [start_month |-> key[2], end_month |-> key[3], segments |-> key[4],
     inactivity_days |-> key[5], threshold |-> key[6]]

\* C28: once a bulk upload has committed and run its cache invalidation,
\* the cache holds no analysis computed from the event set before the
\* upload: a cached analysis that is the analysis of one event set is the
\* analysis of the present one.
C28_Original ==
    (redis_client /\ upload = "idle")
    => \A c \in cache :
          (/\ "error" \notin DOMAIN c.value
           /\ \E log \in SubBag(events) : ComputedFrom(c.value, RequestOfKey(c.key), log))
          => ComputedFrom(c.value, RequestOfKey(c.key), events)

\* C29: an error result of run_full_analysis is not stored in the cache, and
\* no request is answered with a cached error.
C29_Original ==
    /\ \A c \in cache : "error" \notin DOMAIN c.value
    /\ (result.op = "run" /\ result.cached) => "error" \notin DOMAIN result.value

\* C27: when Redis was unreachable at startup (redis_client is None), every
\* analysis endpoint - /analysis/run, /analysis/metrics, /analysis/segments,
\* /analysis/trends and /reports/summary/{month} - still computes and
\* returns its result, and the cache is not touched.
C27_Original ==
    ~redis_client
    => /\ cache = {}
       /\ result.op = "endpoint" => (result.status = 200 /\ ~result.cached)
       /\ result.op = "run" => ~result.cached

====
